---- MODULE Spec2Model ----
(***************************************************************************)
(* Model of the todo CRUD handlers (createTodo, getTodo, updateTodo,       *)
(* deleteTodo) over the todos table.                                       *)
(*                                                                         *)
(* Encoding of JavaScript values:                                          *)
(*   - an optional input field is a sequence of length <= 1: <<>> is       *)
(*     `undefined` (field omitted), <<v>> is the field supplied as v;      *)
(*   - SQL/JS null in a description is the string Null, which is not a     *)
(*     member of Descs;                                                    *)
(*   - a handler's return value is a sequence of length <= 1: <<>> is      *)
(*     null, <<v>> is the record or boolean v.                             *)
(***************************************************************************)
EXTENDS Integers, Sequences, FiniteSets, TLC

(* ---------------- bounds ---------------- *)

\* number of steps (handler calls and clock ticks) of a behaviour
MaxSteps == 4

\* largest reading of the handlers' clock while two updateTodo calls overlap
MaxClock == 1

(* ---------------- values ---------------- *)

Null == "NULL"

Undefined == <<>>

NoRecord == <<>>

Some(v) == <<v>>

\* titles accepted by z.string().min(1)
Titles == {"a", "b"}

\* descriptions accepted by z.string(): the empty string is one of them
Descs == {"", "d"}

\* ids a caller may pass when the serial stands at n: a negative id, 0, every
\* id assigned so far and the first id not assigned yet
IdInputs(n) == (-1) .. n

Opt(S) == {Undefined} \cup {Some(v) : v \in S}

CreateTodoInput == [title : Titles, description : Opt(Descs \cup {Null})]

UpdateTodoInput(n) ==
  [id : IdInputs(n), title : Opt(Titles), description : Opt(Descs \cup {Null}),
   completed : Opt(BOOLEAN)]

DeleteTodoInput(n) == [id : IdInputs(n)]

GetTodoInput(n) == [id : IdInputs(n)]

(* ---------------- state ---------------- *)

VARIABLES
  todosTable,   \* the rows of the todos table: a set of Todo records
  nextId,       \* next value of the id column's serial sequence
  dbNow,        \* the store's clock (column default now())
  appNow,       \* the handler process's clock (new Date())
  call,         \* the last handler call: operation, input and return value
  assigned,     \* history: ids returned by createTodo so far
  deleted,      \* history: ids for which deleteTodo returned true
  issued,       \* the store statements the last handler call issued, with their outcome
  steps,        \* number of steps taken
  updates,      \* concurrent updateTodo calls: per caller, how far its call has got
  todos,        \* client: the list shown (useState<Todo[]>)
  isLoading,    \* client: loadTodos is running
  isCreating,   \* client: handleCreateTodo is running
  backendError, \* client: the banner text, or Null
  isUsingStubData, \* client: demo mode
  pending,      \* client: backend calls awaiting their answer
  rpcCalls,     \* client: number of backend calls issued so far
  clientNow,    \* client: the browser's clock (Date.now())
  event         \* client: the event handler the last step ran, if any

serverVars == <<todosTable, nextId, dbNow, appNow, call, assigned, deleted, issued>>

clientVars ==
  <<todos, isLoading, isCreating, backendError, isUsingStubData, pending,
    rpcCalls, clientNow, event>>

vars == <<serverVars, steps, updates, clientVars>>

\* a step of the handlers alone: no concurrent caller and no client moves
ServerOnly == UNCHANGED <<updates, clientVars>>

Step == steps < MaxSteps /\ steps' = steps + 1

(* ---------------- concurrent callers ---------------- *)

Callers == {"A", "B"}

\* a caller that has not called updateTodo
Idle == [pc |-> "idle", input |-> <<>>, updateData |-> <<>>, statements |-> 0,
         overlapped |-> FALSE]

\* the reading of Date.now() when the page is mounted: milliseconds since
\* 1970, above every value of the serial id column
ClientEpoch == 10

(* ---------------- the store ---------------- *)

\* one statement sent to the store and how it ended: "ok" or the error raised
Statement(kind, outcome) == [stmt |-> kind, outcome |-> outcome]

\* rows selected by .where(eq(todosTable.id, id))
WhereId(table, id) == {r \in table : r.id = id}

\* INSERT ... RETURNING: id from the serial, completed as given,
\* created_at and updated_at from the column default now()
InsertRow(values, id, now) ==
  [id |-> id, title |-> values.title, description |-> values.description,
   completed |-> values.completed, created_at |-> now, updated_at |-> now]

\* an UPDATE that also stamps created_at with the new timestamp
SetRowResetsCreatedAt(r, updateData) ==
  [id |-> r.id,
   title |-> IF updateData.title # Undefined THEN updateData.title[1] ELSE r.title,
   description |-> IF updateData.description # Undefined
                   THEN updateData.description[1] ELSE r.description,
   completed |-> IF updateData.completed # Undefined
                 THEN updateData.completed[1] ELSE r.completed,
   created_at |-> updateData.updated_at[1],
   updated_at |-> updateData.updated_at[1]]

\* UPDATE ... SET: the columns present in updateData are overwritten
SetRow(r, updateData) ==
  [id |-> r.id,
   title |-> IF updateData.title # Undefined THEN updateData.title[1] ELSE r.title,
   description |-> IF updateData.description # Undefined
                   THEN updateData.description[1] ELSE r.description,
   completed |-> IF updateData.completed # Undefined
                 THEN updateData.completed[1] ELSE r.completed,
   created_at |-> r.created_at,
   updated_at |-> IF updateData.updated_at # Undefined
                  THEN updateData.updated_at[1] ELSE r.updated_at]

\* a sequence that does not advance
SerialStuck(n) == n

\* the id column's sequence: every insert takes the next value
SerialNext(n) == n + 1

(* ---------------- createTodo ---------------- *)

\* `v === undefined ? '' : v`: an omitted description defaults to the empty string
OrEmptyWhenOmitted(v) == IF v = Undefined THEN "" ELSE v[1]

\* JavaScript `v || null` on an optional, nullable string
OrNull(v) == IF v = Undefined \/ v[1] = Null \/ v[1] = "" THEN Null ELSE v[1]

\* the object passed to .values(...)
CreateValues(input) ==
  [title |-> input.title, description |-> OrNull(input.description),
   completed |-> FALSE]

CreateTodo(input) ==
  /\ Step
  /\ LET todo == InsertRow(CreateValues(input), nextId, dbNow)
     IN /\ todosTable' = todosTable \cup {todo}
        /\ call' = [op |-> "createTodo", input |-> input, result |-> Some(todo)]
        /\ assigned' = assigned \cup {todo.id}
  /\ issued' = <<Statement("insert", "ok")>>
  /\ nextId' = SerialNext(nextId)
  /\ UNCHANGED <<dbNow, appNow, deleted>>

(* ---------------- getTodo ---------------- *)

\* a select without the where clause: results[0] is whatever row comes first
GetTodoResultNoWhere(table, id) ==
  IF Cardinality(table) > 0 THEN {Some(r) : r \in table} ELSE {NoRecord}

GetTodoResult(table, id) ==
  LET results == WhereId(table, id)
  IN IF Cardinality(results) > 0 THEN {Some(r) : r \in results} ELSE {NoRecord}

GetTodo(input) ==
  /\ Step
  /\ \E res \in GetTodoResult(todosTable, input.id) :
       call' = [op |-> "getTodo", input |-> input, result |-> res]
  /\ issued' = <<Statement("select", "ok")>>
  /\ UNCHANGED <<todosTable, nextId, dbNow, appNow, assigned, deleted>>

(* ---------------- updateTodo ---------------- *)

\* the fallbacks of the placeholder handler: an omitted description is written
\* as null and an omitted completed as false
UpdateDataWithDefaults(input, now) ==
  [updated_at |-> Some(now), title |-> input.title,
   description |-> IF input.description # Undefined THEN input.description ELSE Some(Null),
   completed |-> IF input.completed # Undefined THEN input.completed ELSE Some(FALSE)]

\* `if (input.description)`: a null or empty description is treated as omitted
UpdateDataTruthy(input, now) ==
  [updated_at |-> Some(now), title |-> input.title,
   description |-> IF input.description \in {Undefined, Some(Null), Some("")}
                   THEN Undefined ELSE input.description,
   completed |-> input.completed]

\* `completed: input.completed ?? false`: an omitted completed is written as false
UpdateDataCompletedDefault(input, now) ==
  [updated_at |-> Some(now), title |-> input.title,
   description |-> input.description,
   completed |-> IF input.completed # Undefined THEN input.completed ELSE Some(FALSE)]

UpdateData(input, now) ==
  [updated_at |-> Some(now), title |-> input.title,
   description |-> input.description, completed |-> input.completed]

\* the placeholder handler: no store statement, a made-up record for any id
UpdateTodoPlaceholder(input) ==
  /\ Step
  /\ call' = [op |-> "updateTodo", input |-> input,
              result |-> Some([id |-> input.id,
                               title |-> IF input.title # Undefined
                                         THEN input.title[1] ELSE "Placeholder Title",
                               description |-> IF input.description # Undefined
                                               THEN input.description[1] ELSE Null,
                               completed |-> IF input.completed # Undefined
                                             THEN input.completed[1] ELSE FALSE,
                               created_at |-> appNow, updated_at |-> appNow])]
  /\ issued' = <<>>
  /\ UNCHANGED <<todosTable, nextId, dbNow, appNow, assigned, deleted>>

\* an UPDATE without the where clause: every row takes updateData
UpdateTodoNoWhere(input) ==
  LET updateData == UpdateData(input, appNow)
      result == {SetRow(r, updateData) : r \in todosTable}
      hit == {r \in result : r.id = input.id}
  IN /\ Step
     /\ todosTable' = result
     /\ \E res \in (IF Cardinality(hit) > 0
                    THEN {Some(r) : r \in hit} ELSE {NoRecord}) :
          call' = [op |-> "updateTodo", input |-> input, result |-> res]
     /\ issued' = <<Statement("update", "ok")>>
     /\ UNCHANGED <<nextId, dbNow, appNow, assigned, deleted>>

UpdateTodo(input) ==
  LET updateData == UpdateData(input, appNow)
      matched == WhereId(todosTable, input.id)
      result == {SetRow(r, updateData) : r \in matched}
  IN /\ Step
     /\ todosTable' = (todosTable \ matched) \cup result
     /\ \E res \in (IF Cardinality(result) > 0
                    THEN {Some(r) : r \in result} ELSE {NoRecord}) :
          call' = [op |-> "updateTodo", input |-> input, result |-> res]
     /\ issued' = <<Statement("update", "ok")>>
     /\ UNCHANGED <<nextId, dbNow, appNow, assigned, deleted>>

(* ---------------- deleteTodo ---------------- *)

\* `return result.rowCount !== null`: true whether or not a row was deleted
DeleteTodoRowCountNotNull(input) ==
  LET matched == WhereId(todosTable, input.id)
  IN /\ Step
     /\ todosTable' = todosTable \ matched
     /\ call' = [op |-> "deleteTodo", input |-> input, result |-> Some(TRUE)]
     /\ issued' = <<Statement("delete", "ok")>>
     /\ deleted' = deleted \cup {input.id}
     /\ UNCHANGED <<nextId, dbNow, appNow, assigned>>

\* a DELETE without the where clause: every row goes
DeleteTodoNoWhere(input) ==
  LET matched == WhereId(todosTable, input.id)
      ok == Cardinality(matched) > 0
  IN /\ Step
     /\ todosTable' = {}
     /\ call' = [op |-> "deleteTodo", input |-> input, result |-> Some(ok)]
     /\ issued' = <<Statement("delete", "ok")>>
     /\ deleted' = IF ok THEN deleted \cup {input.id} ELSE deleted
     /\ UNCHANGED <<nextId, dbNow, appNow, assigned>>

DeleteTodo(input) ==
  LET matched == WhereId(todosTable, input.id)
      rowCount == Cardinality(matched)
      ok == rowCount > 0
  IN /\ Step
     /\ todosTable' = todosTable \ matched
     /\ call' = [op |-> "deleteTodo", input |-> input, result |-> Some(ok)]
     /\ issued' = <<Statement("delete", "ok")>>
     /\ deleted' = IF ok THEN deleted \cup {input.id} ELSE deleted
     /\ UNCHANGED <<nextId, dbNow, appNow, assigned>>

(* ---------------- clocks ---------------- *)

TickDb ==
  /\ Step
  /\ dbNow' = dbNow + 1
  /\ UNCHANGED <<todosTable, nextId, appNow, call, assigned, deleted, issued>>
  /\ ServerOnly

TickApp ==
  /\ Step
  /\ appNow' = appNow + 1
  /\ UNCHANGED <<todosTable, nextId, dbNow, call, assigned, deleted, issued>>
  /\ ServerOnly

(* ---------------- the client at mount ---------------- *)

\* no event handler ran in the last step
NoEvent == [handler |-> "none", arg |-> <<>>]

\* the state after the first render and its effect: loadTodos has set
\* isLoading, cleared backendError and is awaiting trpc.getTodos.query()
ClientInit ==
  /\ todos = <<>>
  /\ isLoading = TRUE
  /\ isCreating = FALSE
  /\ backendError = Null
  /\ isUsingStubData = FALSE
  /\ pending = <<[kind |-> "getTodos", arg |-> <<>>]>>
  /\ rpcCalls = 1
  /\ clientNow = ClientEpoch
  /\ event = NoEvent

(* ---------------- specification ---------------- *)

Init ==
  /\ todosTable = {}
  /\ nextId = 1
  /\ dbNow = 0
  /\ appNow = 0
  /\ call = [op |-> "none", input |-> <<>>, result |-> NoRecord]
  /\ assigned = {}
  /\ deleted = {}
  /\ issued = <<>>
  /\ steps = 0
  /\ updates = [c \in Callers |-> Idle]
  /\ ClientInit

Create == ServerOnly /\ \E input \in CreateTodoInput : CreateTodo(input)

Get == ServerOnly /\ \E input \in GetTodoInput(nextId) : GetTodo(input)

Update == ServerOnly /\ \E input \in UpdateTodoInput(nextId) : UpdateTodo(input)

Delete == ServerOnly /\ \E input \in DeleteTodoInput(nextId) : DeleteTodo(input)

Next == Create \/ Get \/ Update \/ Delete \/ TickDb \/ TickApp

Spec == Init /\ [][Next]_vars

(* ---------------- getTodos ---------------- *)

\* a select without orderBy: the rows in any order
RECURSIVE AnyOrder(_)
AnyOrder(rows) ==
  IF rows = {} THEN {<<>>}
  ELSE UNION {{<<r>> \o rest : rest \in AnyOrder(rows \ {r})} : r \in rows}

\* ORDER BY created_at DESC: the rows newest first, ties in any order
RECURSIVE OrderByCreatedAtDesc(_)
OrderByCreatedAtDesc(rows) ==
  IF rows = {} THEN {<<>>}
  ELSE LET newest == {r \in rows : \A q \in rows : r.created_at >= q.created_at}
       IN UNION {{<<r>> \o rest : rest \in OrderByCreatedAtDesc(rows \ {r})} :
                 r \in newest}

GetTodos ==
  /\ Step
  /\ \E res \in OrderByCreatedAtDesc(todosTable) :
       call' = [op |-> "getTodos", input |-> <<>>, result |-> Some(res)]
  /\ issued' = <<Statement("select", "ok")>>
  /\ UNCHANGED <<todosTable, nextId, dbNow, appNow, assigned, deleted>>

List == ServerOnly /\ GetTodos

NextList == Next \/ List

SpecList == Init /\ [][NextList]_vars

(* ---------------- input validation ---------------- *)

\* an untyped JavaScript value as it arrives at the boundary: its type tag and,
\* by type, its number, string or boolean
JsUndefined == [t |-> "undefined", n |-> 0, s |-> "", b |-> FALSE]

JsNull == [t |-> "null", n |-> 0, s |-> "", b |-> FALSE]

JsNumber(i) == [t |-> "number", n |-> i, s |-> "", b |-> FALSE]

JsString(str) == [t |-> "string", n |-> 0, s |-> str, b |-> FALSE]

JsBoolean(bool) == [t |-> "boolean", n |-> 0, s |-> "", b |-> bool]

\* z.number()
ZNumber(v) == v.t = "number"

\* z.string() with the .min(1) left out
ZStringNoMin(v) == v.t = "string"

\* z.string().min(1)
ZStringMin1(v) == v.t = "string" /\ Len(v.s) >= 1

\* z.string().nullable().optional()
ZStringNullableOptional(v) == v.t \in {"undefined", "null", "string"}

\* z.boolean().optional()
ZBooleanOptional(v) == v.t \in {"undefined", "boolean"}

createTodoInputSchema(raw) ==
  /\ ZStringMin1(raw.title)
  /\ ZStringNullableOptional(raw.description)

updateTodoInputSchema(raw) ==
  /\ ZNumber(raw.id)
  /\ (raw.title.t = "undefined" \/ ZStringMin1(raw.title))
  /\ ZStringNullableOptional(raw.description)
  /\ ZBooleanOptional(raw.completed)

deleteTodoInputSchema(raw) == ZNumber(raw.id)

getTodoInputSchema(raw) == ZNumber(raw.id)

\* the typed value of a field that passed an optional, nullable string schema
ParsedString(v) ==
  IF v.t = "undefined" THEN Undefined
  ELSE IF v.t = "null" THEN Some(Null) ELSE Some(v.s)

ParsedBoolean(v) == IF v.t = "undefined" THEN Undefined ELSE Some(v.b)

ParsedCreate(raw) ==
  [title |-> raw.title.s, description |-> ParsedString(raw.description)]

ParsedUpdate(raw) ==
  [id |-> raw.id.n, title |-> ParsedString(raw.title),
   description |-> ParsedString(raw.description),
   completed |-> ParsedBoolean(raw.completed)]

ParsedId(raw) == [id |-> raw.id.n]

\* what a caller may send as an id: a number, nothing, or a string
RawIds(n) == {JsNumber(i) : i \in 1 .. n} \cup {JsUndefined, JsString("1")}

\* what a caller may send as a title: nothing, the empty string, or a title
RawTitles == {JsUndefined, JsString("")} \cup {JsString(t) : t \in Titles}

RawDescriptions == {JsUndefined, JsNull, JsString("d")}

RawCompleted == {JsUndefined, JsBoolean(TRUE)}

RawCreateInput == [title : RawTitles, description : RawDescriptions]

RawUpdateInput(n) ==
  [id : RawIds(n), title : RawTitles, description : RawDescriptions,
   completed : RawCompleted]

RawIdInput(n) == [id : RawIds(n)]

\* a handler call that ended by throwing error
Thrown(error) == <<"throw", error>>

\* the input failed its schema: the procedure throws and the handler never runs
Reject(op, raw) ==
  /\ Step
  /\ call' = [op |-> op, input |-> raw, result |-> Thrown("InvalidInput")]
  /\ issued' = <<>>
  /\ UNCHANGED <<todosTable, nextId, dbNow, appNow, assigned, deleted>>

ApiCreateTodo(raw) ==
  IF createTodoInputSchema(raw)
  THEN CreateTodo(ParsedCreate(raw)) ELSE Reject("createTodo", raw)

ApiGetTodo(raw) ==
  IF getTodoInputSchema(raw)
  THEN GetTodo(ParsedId(raw)) ELSE Reject("getTodo", raw)

ApiUpdateTodo(raw) ==
  IF updateTodoInputSchema(raw)
  THEN UpdateTodo(ParsedUpdate(raw)) ELSE Reject("updateTodo", raw)

ApiDeleteTodo(raw) ==
  IF deleteTodoInputSchema(raw)
  THEN DeleteTodo(ParsedId(raw)) ELSE Reject("deleteTodo", raw)

ApiCreate == ServerOnly /\ \E raw \in RawCreateInput : ApiCreateTodo(raw)

ApiGet == ServerOnly /\ \E raw \in RawIdInput(nextId) : ApiGetTodo(raw)

ApiUpdate == ServerOnly /\ \E raw \in RawUpdateInput(nextId) : ApiUpdateTodo(raw)

ApiDelete == ServerOnly /\ \E raw \in RawIdInput(nextId) : ApiDeleteTodo(raw)

NextApi == ApiCreate \/ ApiGet \/ ApiUpdate \/ ApiDelete

SpecApi == Init /\ [][NextApi]_vars

(* ---------------- a failing store statement ---------------- *)

\* errors the store may raise for a statement
StoreErrors == {"ECONNREFUSED", "57014"}

\* `catch (error) { return null; }`: the error is swallowed
CatchReturnsNull(error) == NoRecord

\* `catch (error) { console.error(...); throw error; }`
Catch(error) == Thrown(error)

\* the handler's one statement raises error: nothing is written, and the
\* handler ends in its catch block
StatementFails(op, input, kind, error) ==
  /\ Step
  /\ issued' = <<Statement(kind, error)>>
  /\ call' = [op |-> op, input |-> input, result |-> Catch(error)]
  /\ UNCHANGED <<todosTable, nextId, dbNow, appNow, assigned, deleted>>

CreateFails ==
  ServerOnly /\ \E input \in CreateTodoInput, error \in StoreErrors :
    StatementFails("createTodo", input, "insert", error)

GetFails ==
  ServerOnly /\ \E input \in GetTodoInput(nextId), error \in StoreErrors :
    StatementFails("getTodo", input, "select", error)

\* the failing updates tried: those that leave the description out
UpdateFails ==
  ServerOnly /\ \E input \in {i \in UpdateTodoInput(nextId) : i.description = Undefined},
     error \in StoreErrors :
    StatementFails("updateTodo", input, "update", error)

DeleteFails ==
  ServerOnly /\ \E input \in DeleteTodoInput(nextId), error \in StoreErrors :
    StatementFails("deleteTodo", input, "delete", error)

NextFail ==
  \/ Create \/ Get \/ Delete
  \/ CreateFails \/ GetFails \/ UpdateFails \/ DeleteFails

SpecFail == Init /\ [][NextFail]_vars

(* ---------------- two updateTodo calls at once ---------------- *)

\* the store after one createTodo, with both callers yet to call and the
\* client just mounted
InitOneTodo ==
  /\ \E input \in CreateTodoInput :
       LET todo == InsertRow(CreateValues(input), 1, 0)
       IN /\ todosTable = {todo}
          /\ call = [op |-> "createTodo", input |-> input, result |-> Some(todo)]
  /\ nextId = SerialNext(1)
  /\ dbNow = 0
  /\ appNow = 0
  /\ assigned = {1}
  /\ deleted = {}
  /\ issued = <<Statement("insert", "ok")>>
  /\ steps = 0
  /\ updates = [c \in Callers |-> Idle]
  /\ ClientInit

\* updateTodo up to its await: updateData is built, with updated_at read from
\* the clock now
UpdateTodoBegin(c, input) ==
  /\ updates[c].pc = "idle"
  /\ updates' = [updates EXCEPT ![c] =
                   [pc |-> "awaiting", input |-> input,
                    updateData |-> UpdateData(input, appNow),
                    statements |-> 0, overlapped |-> FALSE]]
  /\ UNCHANGED <<serverVars, steps, clientVars>>

\* the awaited UPDATE ... RETURNING runs in the store, and the handler returns
UpdateTodoExecute(c) ==
  LET u == updates[c]
      matched == WhereId(todosTable, u.input.id)
      result == {SetRow(r, u.updateData) : r \in matched}
  IN /\ u.pc = "awaiting"
     /\ todosTable' = (todosTable \ matched) \cup result
     /\ \E res \in (IF Cardinality(result) > 0
                    THEN {Some(r) : r \in result} ELSE {NoRecord}) :
          call' = [op |-> "updateTodo", input |-> u.input, result |-> res]
     /\ issued' = <<Statement("update", "ok")>>
     /\ updates' = [updates EXCEPT ![c] =
                      [u EXCEPT !.pc = "returned",
                                !.statements = u.statements + 1,
                                !.overlapped =
                                   \E d \in Callers \ {c} : updates[d].pc = "awaiting"]]
     /\ UNCHANGED <<nextId, dbNow, appNow, assigned, deleted, steps, clientVars>>

\* the concurrent callers address rows that exist
ConcBegin ==
  \E c \in Callers :
    \E input \in {i \in UpdateTodoInput(nextId) : WhereId(todosTable, i.id) # {}} :
      UpdateTodoBegin(c, input)

ConcExecute == \E c \in Callers : UpdateTodoExecute(c)

ConcTick ==
  /\ appNow < MaxClock
  /\ appNow' = appNow + 1
  /\ UNCHANGED <<todosTable, nextId, dbNow, call, assigned, deleted, issued,
                 steps, updates, clientVars>>

NextConc == ConcBegin \/ ConcExecute \/ ConcTick

SpecConc == InitOneTodo /\ [][NextConc]_vars

(* ---------------- the client ---------------- *)

\* the banner texts
DemoMode == "Backend not fully implemented - using demo mode"

LocalOnly == "Backend not available - changes are local only"

\* a day in milliseconds
DayMs == 86400000

\* what the form can hold at submit: any title that passes `required`, and a
\* description that `e.target.value || null` made null or a non-empty string
FormData == [title : Titles \cup {" "}, description : {Some(Null), Some("d")}]

\* String.prototype.trim on the titles of FormData
Trim(s) == IF s = " " THEN "" ELSE s

createStubTodo(title, description, now) ==
  [id |-> now, title |-> title,
   description |-> IF description = Undefined THEN Null ELSE description[1],
   completed |-> FALSE, created_at |-> now, updated_at |-> now]

\* the two demo todos loadTodos shows when the backend cannot be reached
DemoTodos(now) ==
  <<[id |-> 1, title |-> "Welcome to Todo Manager!",
     description |-> "This is a demo todo showing how the app works",
     completed |-> FALSE, created_at |-> now, updated_at |-> now],
    [id |-> 2, title |-> "Try adding a new todo above",
     description |-> "Click the Add Todo button to see it in action",
     completed |-> TRUE, created_at |-> now - DayMs, updated_at |-> now]>>

\* prev.map(t => ({ ...t, completed: !t.completed, updated_at: new Date() }))
ToggleEvery(prev, id, now) ==
  [k \in 1 .. Len(prev) |-> [prev[k] EXCEPT !.completed = ~@, !.updated_at = now]]

\* prev.map(t => t.id === id ? { ...t, completed: !t.completed,
\*                                updated_at: new Date() } : t)
ToggleLocal(prev, id, now) ==
  [k \in 1 .. Len(prev) |->
     IF prev[k].id = id
     THEN [prev[k] EXCEPT !.completed = ~@, !.updated_at = now]
     ELSE prev[k]]

\* prev.map(t => t.id === id ? updatedTodo : t)
ReplaceTodo(prev, id, updatedTodo) ==
  [k \in 1 .. Len(prev) |-> IF prev[k].id = id THEN updatedTodo ELSE prev[k]]

\* prev.filter(t => t.id !== id)
RemoveTodo(prev, id) == SelectSeq(prev, LAMBDA t : t.id # id)

\* the calls in flight without the k-th
Settled(k) == SubSeq(pending, 1, k - 1) \o SubSeq(pending, k + 1, Len(pending))

Request(kind, input) == [kind |-> kind, arg |-> Some(input)]

\* a step of the client alone: the backend is not reached
ClientOnly == UNCHANGED <<serverVars, updates>>

\* loadTodos from the point where trpc.getTodos.query() has given result
LoadTodosThen(k, result) ==
  /\ todos' = result
  /\ isUsingStubData' = FALSE
  /\ isLoading' = FALSE
  /\ pending' = Settled(k)
  /\ event' = NoEvent
  /\ UNCHANGED <<updates, isCreating, backendError, rpcCalls, clientNow>>

\* loadTodos after trpc.getTodos.query() resolved
LoadTodosResolved ==
  \E k \in 1 .. Len(pending) :
    /\ pending[k].kind = "getTodos"
    /\ GetTodos
    /\ LoadTodosThen(k, call'.result[1])

\* loadTodos after trpc.getTodos.query() rejected
LoadTodosRejected ==
  \E k \in 1 .. Len(pending) :
    /\ pending[k].kind = "getTodos"
    /\ Step
    /\ ClientOnly
    /\ backendError' = DemoMode
    /\ isUsingStubData' = TRUE
    /\ todos' = DemoTodos(clientNow)
    /\ isLoading' = FALSE
    /\ pending' = Settled(k)
    /\ event' = NoEvent
    /\ UNCHANGED <<isCreating, rpcCalls, clientNow>>

\* the form is submitted (the submit button is disabled while isCreating)
handleCreateTodo ==
  \E formData \in FormData :
    /\ ~isCreating
    /\ Trim(formData.title) # ""
    /\ Step
    /\ ClientOnly
    /\ event' = [handler |-> "handleCreateTodo", arg |-> Some(formData)]
    /\ IF isUsingStubData
       THEN /\ todos' = <<createStubTodo(formData.title, formData.description,
                                         clientNow)>> \o todos
            /\ UNCHANGED <<isCreating, pending, rpcCalls>>
       ELSE /\ isCreating' = TRUE
            /\ pending' = Append(pending, Request("createTodo", formData))
            /\ rpcCalls' = rpcCalls + 1
            /\ UNCHANGED todos
    /\ UNCHANGED <<isLoading, backendError, isUsingStubData, clientNow>>

\* handleCreateTodo from the point where trpc.createTodo.mutate(formData) has
\* given newTodo
CreateTodoThen(k, newTodo) ==
  /\ todos' = <<newTodo>> \o todos
  /\ isCreating' = FALSE
  /\ pending' = Settled(k)
  /\ event' = NoEvent
  /\ UNCHANGED <<updates, isLoading, backendError, isUsingStubData, rpcCalls,
                 clientNow>>

\* handleCreateTodo after trpc.createTodo.mutate(formData) resolved
CreateTodoResolved ==
  \E k \in 1 .. Len(pending) :
    /\ pending[k].kind = "createTodo"
    /\ CreateTodo(pending[k].arg[1])
    /\ CreateTodoThen(k, call'.result[1])

\* handleCreateTodo after trpc.createTodo.mutate(formData) rejected
CreateTodoRejected ==
  \E k \in 1 .. Len(pending) :
    LET formData == pending[k].arg[1]
    IN /\ pending[k].kind = "createTodo"
       /\ Step
       /\ ClientOnly
       /\ todos' = <<createStubTodo(formData.title, formData.description,
                                    clientNow)>> \o todos
       /\ isUsingStubData' = TRUE
       /\ backendError' = LocalOnly
       /\ isCreating' = FALSE
       /\ pending' = Settled(k)
       /\ event' = NoEvent
       /\ UNCHANGED <<isLoading, rpcCalls, clientNow>>

\* the circle of a listed todo is clicked (the list is shown once loaded)
handleToggleComplete ==
  \E n \in 1 .. Len(todos) :
    LET todo == todos[n]
    IN /\ ~isLoading
       /\ Step
       /\ ClientOnly
       /\ event' = [handler |-> "handleToggleComplete", arg |-> Some(todo)]
       /\ IF isUsingStubData
          THEN /\ todos' = ToggleLocal(todos, todo.id, clientNow)
               /\ UNCHANGED <<pending, rpcCalls>>
          ELSE /\ pending' = Append(pending, Request("updateTodo",
                                 [id |-> todo.id, title |-> Undefined,
                                  description |-> Undefined,
                                  completed |-> Some(~todo.completed)]))
               /\ rpcCalls' = rpcCalls + 1
               /\ UNCHANGED todos
       /\ UNCHANGED <<isLoading, isCreating, backendError, isUsingStubData,
                      clientNow>>

\* handleToggleComplete from the point where trpc.updateTodo.mutate(...) has
\* given updatedTodo (a record or null)
UpdateTodoThen(k, updatedTodo) ==
  /\ todos' = IF updatedTodo # NoRecord
              THEN ReplaceTodo(todos, pending[k].arg[1].id, updatedTodo[1])
              ELSE todos
  /\ pending' = Settled(k)
  /\ event' = NoEvent
  /\ UNCHANGED <<updates, isLoading, isCreating, backendError, isUsingStubData,
                 rpcCalls, clientNow>>

\* handleToggleComplete after trpc.updateTodo.mutate(...) resolved
UpdateTodoResolved ==
  \E k \in 1 .. Len(pending) :
    /\ pending[k].kind = "updateTodo"
    /\ UpdateTodo(pending[k].arg[1])
    /\ UpdateTodoThen(k, call'.result)

\* handleToggleComplete after trpc.updateTodo.mutate(...) rejected
UpdateTodoRejected ==
  \E k \in 1 .. Len(pending) :
    /\ pending[k].kind = "updateTodo"
    /\ Step
    /\ ClientOnly
    /\ todos' = ToggleLocal(todos, pending[k].arg[1].id, clientNow)
    /\ isUsingStubData' = TRUE
    /\ backendError' = LocalOnly
    /\ pending' = Settled(k)
    /\ event' = NoEvent
    /\ UNCHANGED <<isLoading, isCreating, rpcCalls, clientNow>>

\* the deletion of a listed todo is confirmed in its dialog
handleDeleteTodo ==
  \E n \in 1 .. Len(todos) :
    LET todoId == todos[n].id
    IN /\ ~isLoading
       /\ Step
       /\ ClientOnly
       /\ event' = [handler |-> "handleDeleteTodo", arg |-> Some(todoId)]
       /\ IF isUsingStubData
          THEN /\ todos' = RemoveTodo(todos, todoId)
               /\ UNCHANGED <<pending, rpcCalls>>
          ELSE /\ pending' = Append(pending, Request("deleteTodo", [id |-> todoId]))
               /\ rpcCalls' = rpcCalls + 1
               /\ UNCHANGED todos
       /\ UNCHANGED <<isLoading, isCreating, backendError, isUsingStubData,
                      clientNow>>

\* handleDeleteTodo from the point where trpc.deleteTodo.mutate(...) has given
\* success
DeleteTodoThen(k, success) ==
  /\ todos' = IF success THEN RemoveTodo(todos, pending[k].arg[1].id) ELSE todos
  /\ pending' = Settled(k)
  /\ event' = NoEvent
  /\ UNCHANGED <<updates, isLoading, isCreating, backendError, isUsingStubData,
                 rpcCalls, clientNow>>

\* handleDeleteTodo after trpc.deleteTodo.mutate(...) resolved
DeleteTodoResolved ==
  \E k \in 1 .. Len(pending) :
    /\ pending[k].kind = "deleteTodo"
    /\ DeleteTodo(pending[k].arg[1])
    /\ DeleteTodoThen(k, call'.result[1])

\* handleDeleteTodo after trpc.deleteTodo.mutate(...) rejected
DeleteTodoRejected ==
  \E k \in 1 .. Len(pending) :
    /\ pending[k].kind = "deleteTodo"
    /\ Step
    /\ ClientOnly
    /\ todos' = RemoveTodo(todos, pending[k].arg[1].id)
    /\ isUsingStubData' = TRUE
    /\ backendError' = LocalOnly
    /\ pending' = Settled(k)
    /\ event' = NoEvent
    /\ UNCHANGED <<isLoading, isCreating, rpcCalls, clientNow>>

\* the browser's clock advances
ClientTick ==
  /\ Step
  /\ ClientOnly
  /\ clientNow' = clientNow + 1
  /\ event' = NoEvent
  /\ UNCHANGED <<todos, isLoading, isCreating, backendError, isUsingStubData,
                 pending, rpcCalls>>

NextClient ==
  \/ LoadTodosResolved \/ LoadTodosRejected
  \/ handleCreateTodo \/ CreateTodoResolved \/ CreateTodoRejected
  \/ handleToggleComplete \/ UpdateTodoResolved \/ UpdateTodoRejected
  \/ handleDeleteTodo \/ DeleteTodoResolved \/ DeleteTodoRejected
  \/ ClientTick

SpecClient == InitOneTodo /\ [][NextClient]_vars

(* ---------------- the client and a reachable backend ---------------- *)

\* the backend has run the handler of the k-th call in flight; its answer is
\* on its way to the client
Answered(k) == "result" \in DOMAIN pending[k]

Answer(request, result) ==
  [kind |-> request.kind, arg |-> request.arg, result |-> result]

\* the backend runs the handler of a call in flight
Serve ==
  \E k \in 1 .. Len(pending) :
    /\ ~Answered(k)
    /\ \/ pending[k].kind = "getTodos" /\ GetTodos
       \/ pending[k].kind = "createTodo" /\ CreateTodo(pending[k].arg[1])
       \/ pending[k].kind = "updateTodo" /\ UpdateTodo(pending[k].arg[1])
       \/ pending[k].kind = "deleteTodo" /\ DeleteTodo(pending[k].arg[1])
    /\ pending' = [pending EXCEPT ![k] = Answer(@, call'.result)]
    /\ event' = NoEvent
    /\ UNCHANGED <<updates, todos, isLoading, isCreating, backendError,
                   isUsingStubData, rpcCalls, clientNow>>

\* an answer reaches the client and the awaiting handler goes on; answers
\* arrive in any order
Deliver ==
  \E k \in 1 .. Len(pending) :
    /\ Answered(k)
    /\ \/ pending[k].kind = "getTodos" /\ LoadTodosThen(k, pending[k].result[1])
       \/ pending[k].kind = "createTodo" /\ CreateTodoThen(k, pending[k].result[1])
       \/ pending[k].kind = "updateTodo" /\ UpdateTodoThen(k, pending[k].result)
       \/ pending[k].kind = "deleteTodo" /\ DeleteTodoThen(k, pending[k].result[1])
    /\ UNCHANGED <<serverVars, steps>>

NextRpc ==
  \/ handleCreateTodo \/ handleToggleComplete \/ handleDeleteTodo
  \/ Serve \/ Deliver

SpecRpc == InitOneTodo /\ [][NextRpc]_vars

(* ---------------- steps of one handler ---------------- *)

\* the step is a call of handler op: the clocks stand still and the call is recorded
CalledStep(op) ==
  /\ steps' = steps + 1
  /\ dbNow' = dbNow
  /\ appNow' = appNow
  /\ call'.op = op

Supplied(field) == field # Undefined

(* ---------------- C1 ---------------- *)

\* C1: for every existing row and every updateTodo input, each of title,
\* description and completed is written to the row only if the input includes
\* it, every omitted field keeps the value it had before the call, and the
\* returned record is the row after the update.
C1_UpdateWritesOnlySuppliedFields ==
  [][CalledStep("updateTodo") =>
       \A r \in WhereId(todosTable, call'.input.id) :
         LET input == call'.input
             after == WhereId(todosTable', r.id)
         IN /\ Cardinality(after) = 1
            /\ \A q \in after :
                 /\ q.title = IF Supplied(input.title) THEN input.title[1] ELSE r.title
                 /\ q.description = IF Supplied(input.description)
                                    THEN input.description[1] ELSE r.description
                 /\ q.completed = IF Supplied(input.completed)
                                  THEN input.completed[1] ELSE r.completed
                 /\ call'.result = Some(q)]_vars

\* an update that supplied only completed returned a row that still carries
\* the empty description an earlier update had written
C1_Witness ==
  /\ call.op = "updateTodo"
  /\ call.result # NoRecord
  /\ ~Supplied(call.input.title)
  /\ ~Supplied(call.input.description)
  /\ call.input.completed = Some(TRUE)
  /\ call.result[1].completed = TRUE
  /\ call.result[1].title = "b"
  /\ call.result[1].description = ""

(* ---------------- C2 ---------------- *)

\* C2: updateTodo distinguishes three states of description: explicit null
\* sets the stored description to null, a string overwrites it, an omitted
\* description leaves the stored one (null or not) untouched; title and
\* completed change only when themselves supplied.
C2_DescriptionThreeStates ==
  [][CalledStep("updateTodo") =>
       \A r \in WhereId(todosTable, call'.input.id) :
         \A q \in WhereId(todosTable', r.id) :
           LET input == call'.input
           IN /\ (input.description = Some(Null) => q.description = Null)
              /\ (\A d \in Descs : input.description = Some(d) => q.description = d)
              /\ (input.description = Undefined => q.description = r.description)
              /\ (~Supplied(input.title) => q.title = r.title)
              /\ (~Supplied(input.completed) => q.completed = r.completed)]_vars

\* an update with description explicitly null and nothing else supplied
\* returned a row whose description is null while its title and completed
\* still hold values written by earlier calls
C2_Witness ==
  /\ call.op = "updateTodo"
  /\ call.result # NoRecord
  /\ call.input.description = Some(Null)
  /\ ~Supplied(call.input.title)
  /\ ~Supplied(call.input.completed)
  /\ call.result[1].description = Null
  /\ call.result[1].completed = TRUE

(* ---------------- C3 ---------------- *)

\* C3: every updateTodo call that targets an existing row, whichever fields it
\* supplies, sets the row's updated_at to the current time, and the new
\* updated_at is strictly greater than the row's updated_at before the call.
C3_UpdatedAtStrictlyAdvances ==
  [][CalledStep("updateTodo") =>
       \A r \in WhereId(todosTable, call'.input.id) :
         \A q \in WhereId(todosTable', r.id) :
           /\ q.updated_at = appNow
           /\ q.updated_at > r.updated_at]_vars

(* ---------------- C4 ---------------- *)

\* C4: in every reachable store state every row satisfies
\* created_at <= updated_at.
C4_CreatedNotAfterUpdated ==
  \A r \in todosTable : r.created_at <= r.updated_at

(* ---------------- C5 ---------------- *)

\* C5: createTodo stores a supplied string description exactly as given (an
\* empty string stays an empty string); the stored description is null only
\* when description was omitted or given as null.
C5_CreateKeepsDescriptionString ==
  call.op = "createTodo" =>
    /\ \A d \in Descs :
         call.input.description = Some(d) => call.result[1].description = d
    /\ (call.result[1].description = Null =>
          call.input.description \in {Undefined, Some(Null)})

(* ---------------- C6 ---------------- *)

\* C6: createTodo adds exactly one row and returns it: title is the input
\* title, completed is false, description is the supplied value or null when
\* omitted, created_at equals updated_at, and id is held by no other row.
C6_CreateAddsOneRow ==
  [][CalledStep("createTodo") =>
       LET input == call'.input
           todo == call'.result[1]
       IN /\ call'.result # NoRecord
          /\ todo \notin todosTable
          /\ todosTable' = todosTable \cup {todo}
          /\ todo.title = input.title
          /\ todo.completed = FALSE
          /\ todo.description = IF Supplied(input.description)
                                THEN input.description[1] ELSE Null
          /\ todo.created_at = todo.updated_at
          /\ \A r \in todosTable' : r.id = todo.id => r = todo]_vars

(* ---------------- C7 ---------------- *)

\* the other spelling of "no description" for a createTodo input
OtherAbsent(input) ==
  [input EXCEPT !.description = IF @ = Undefined THEN Some(Null) ELSE Undefined]

\* C7: for the same title and the same store state, createTodo with
\* description null and createTodo with description omitted produce the same
\* stored row and the same returned record: a call made with one spelling
\* leaves exactly the table and the record the handler computes for the other.
C7_NullAndOmittedCreateAlike ==
  [][(CalledStep("createTodo") /\ call'.input.description \in {Undefined, Some(Null)}) =>
       LET todo == InsertRow(CreateValues(OtherAbsent(call'.input)), nextId, dbNow)
       IN /\ todosTable' = todosTable \cup {todo}
          /\ call'.result = Some(todo)]_vars

\* a createTodo with description explicitly null has stored a row with a null
\* description next to an older row
C7_Witness ==
  /\ call.op = "createTodo"
  /\ call.input.description = Some(Null)
  /\ call.result[1].description = Null
  /\ call.result[1] \in todosTable
  /\ Cardinality(todosTable) = 2

(* ---------------- C8 ---------------- *)

\* C8: updateTodo with an id that has no row returns null, creates no row and
\* leaves every existing row unchanged (updated_at included), also when the
\* id's row was deleted earlier.
C8_UpdateMissingIdIsNoOp ==
  [][(CalledStep("updateTodo") /\ WhereId(todosTable, call'.input.id) = {}) =>
       /\ call'.result = NoRecord
       /\ todosTable' = todosTable]_vars

\* an update of an id whose row deleteTodo removed returned null while another
\* row is in the table
C8_Witness ==
  /\ call.op = "updateTodo"
  /\ call.input.id \in deleted
  /\ Supplied(call.input.title)
  /\ call.result = NoRecord
  /\ todosTable # {}

(* ---------------- C9 ---------------- *)

\* C9: after any sequence of create, update and delete calls no two rows share
\* an id, an id assigned once is never assigned again by a later createTodo
\* (even after its row was deleted), and once deleteTodo removed id i, getTodo(i)
\* returns null in every later state.
C9_IdsUniqueAndNeverReused ==
  [][/\ CalledStep("createTodo") => call'.result[1].id \notin assigned
     /\ \A r1, r2 \in todosTable' : r1.id = r2.id => r1 = r2
     /\ \A i \in deleted' : GetTodoResult(todosTable', i) = {NoRecord}]_vars

\* a createTodo after a deleteTodo: the new row's id differs from the deleted
\* one, and getTodo for the deleted id finds nothing
C9_Witness ==
  /\ call.op = "createTodo"
  /\ deleted # {}
  /\ call.result[1].id \notin deleted
  /\ call.result[1] \in todosTable
  /\ \A i \in deleted : GetTodoResult(todosTable, i) = {NoRecord}

(* ---------------- C10 ---------------- *)

\* C10: deleteTodo returns true exactly when a row with the given id existed
\* before the call; after a true result the row is gone and getTodo for that id
\* returns null; when no such row existed it returns false and the number of
\* rows is unchanged.
C10_DeleteReportsExistence ==
  [][CalledStep("deleteTodo") =>
       LET id == call'.input.id
           existed == WhereId(todosTable, id) # {}
       IN /\ call'.result = Some(existed)
          /\ existed => /\ WhereId(todosTable', id) = {}
                        /\ GetTodoResult(todosTable', id) = {NoRecord}
          /\ ~existed => Cardinality(todosTable') = Cardinality(todosTable)]_vars

\* a deleteTodo returned true, its row is gone and another row is still there
C10_Witness ==
  /\ call.op = "deleteTodo"
  /\ call.result = Some(TRUE)
  /\ GetTodoResult(todosTable, call.input.id) = {NoRecord}
  /\ todosTable # {}

(* ---------------- C11 ---------------- *)

\* C11: deleteTodo(id) removes at most the row with that id: every row with a
\* different id is still present afterwards with all its fields unchanged.
C11_DeleteLeavesOtherRows ==
  [][CalledStep("deleteTodo") =>
       /\ \A r \in todosTable : r.id # call'.input.id => r \in todosTable'
       /\ todosTable' \subseteq todosTable]_vars

\* a deleteTodo removed its row while a row that an update had completed is
\* still in the table
C11_Witness ==
  /\ call.op = "deleteTodo"
  /\ call.result = Some(TRUE)
  /\ \E r \in todosTable : r.id # call.input.id /\ r.completed = TRUE

(* ---------------- C12 ---------------- *)

\* C12: updateTodo never changes the id or the created_at of the row it
\* updates: for every existing row and every input they are the same after the
\* call as before it.
C12_UpdateKeepsIdAndCreatedAt ==
  [][CalledStep("updateTodo") =>
       \A r \in todosTable : r.id = call'.input.id =>
         /\ call'.result # NoRecord
         /\ call'.result[1].id = r.id
         /\ call'.result[1].created_at = r.created_at
         /\ \E q \in todosTable' : q.id = r.id
         /\ \A q \in todosTable' : q.id = r.id => q.created_at = r.created_at]_vars

\* an update returned a row whose updated_at has moved away from its created_at
C12_Witness ==
  /\ call.op = "updateTodo"
  /\ call.result # NoRecord
  /\ call.result[1].updated_at > call.result[1].created_at
  /\ call.result[1] \in todosTable

(* ---------------- C13 ---------------- *)

\* C13: getTodo(id) returns the stored row with that id when one exists and
\* null otherwise, also for ids never created and for 0 and negative ids; it
\* raises nothing for a missing id and never changes the store.
C13_GetReturnsRowOrNull ==
  [][CalledStep("getTodo") =>
       LET id == call'.input.id
       IN /\ todosTable' = todosTable
          /\ (\E r \in todosTable : r.id = id) =>
               /\ call'.result # NoRecord
               /\ call'.result[1] \in todosTable
               /\ call'.result[1].id = id
          /\ (\A r \in todosTable : r.id # id) => call'.result = NoRecord]_vars

\* getTodo for a non-positive id returned null while the table holds a row
C13_Witness ==
  /\ call.op = "getTodo"
  /\ call.input.id <= 0
  /\ call.result = NoRecord
  /\ todosTable # {}

(* ---------------- C18 ---------------- *)

\* C18: updateTodo(id) mutates at most one row: every row whose id differs from
\* the input id keeps all its fields, updated_at included, whether or not a row
\* with the input id exists.
C18_UpdateTouchesOneRow ==
  [][CalledStep("updateTodo") =>
       /\ \A r \in todosTable : r.id # call'.input.id => r \in todosTable'
       /\ \A q \in todosTable' : q.id # call'.input.id => q \in todosTable
       /\ Cardinality(todosTable' \ todosTable) <= 1]_vars

\* an update stamped its row with a later time while another row still carries
\* the older updated_at
C18_Witness ==
  /\ call.op = "updateTodo"
  /\ call.result # NoRecord
  /\ \E r \in todosTable :
       /\ r.id # call.input.id
       /\ r.updated_at < call.result[1].updated_at

(* ---------------- C14 ---------------- *)

\* C14: getTodos returns every row of the store exactly once, ordered by
\* created_at descending (of any two returned rows the earlier one has
\* created_at >= the later one), returns the empty sequence when the store is
\* empty, and changes nothing in the store.
C14_ListNewestFirst ==
  [][CalledStep("getTodos") =>
       LET res == call'.result[1]
       IN /\ todosTable' = todosTable
          /\ Len(res) = Cardinality(todosTable)
          /\ {res[i] : i \in 1 .. Len(res)} = todosTable
          /\ \A i, j \in 1 .. Len(res) :
               i < j => res[i].created_at >= res[j].created_at
          /\ (todosTable = {} => res = <<>>)]_vars

\* getTodos returned two rows created at different times
C14_Witness ==
  /\ call.op = "getTodos"
  /\ Len(call.result[1]) = 2
  /\ call.result[1][1].created_at > call.result[1][2].created_at

(* ---------------- C15 ---------------- *)

\* C15: an input that fails the schema (create with empty title, update with
\* empty title, missing or non-numeric id) is rejected with an error before any
\* store statement is issued, so the store is unchanged; an input with a title
\* of length >= 1 (and a numeric id where one is required) is accepted.
C15_InvalidInputNeverReachesStore ==
  [][\A op \in {"createTodo", "getTodo", "updateTodo", "deleteTodo"} :
       CalledStep(op) =>
         LET input == call'.input
             rejected == call'.result = Thrown("InvalidInput")
         IN /\ rejected =>
                 /\ issued' = <<>>
                 /\ todosTable' = todosTable
                 /\ nextId' = nextId
                 /\ IF op = "createTodo"
                    THEN input.title.t # "string" \/ input.title.s = ""
                    ELSE \/ input.id.t # "number"
                         \/ op = "updateTodo" /\ input.title.t = "string"
                                              /\ input.title.s = ""
            /\ ~rejected =>
                 /\ Len(issued') = 1
                 /\ op = "createTodo" => Len(input.title) >= 1
                 /\ op # "createTodo" => input.id \in 1 .. nextId
                 /\ op = "updateTodo" =>
                      (Supplied(input.title) => Len(input.title[1]) >= 1)]_vars

\* an update with a numeric id of an existing row and an empty title was
\* rejected, with no statement issued
C15_Witness ==
  /\ call.op = "updateTodo"
  /\ call.result = Thrown("InvalidInput")
  /\ call.input.id.t = "number"
  /\ call.input.title = JsString("")
  /\ issued = <<>>
  /\ \E r \in todosTable : r.id = call.input.id.n

(* ---------------- C16 ---------------- *)

\* C16: when the store statement of createTodo, getTodo, updateTodo or
\* deleteTodo fails, the handler re-raises that same error to its caller, does
\* not retry, returns no normal value (record, null or boolean), and the store
\* is left as it was before the call.
C16_StoreFailureIsRethrown ==
  [][\A op \in {"createTodo", "getTodo", "updateTodo", "deleteTodo"} :
       (CalledStep(op) /\ \E i \in 1 .. Len(issued') : issued'[i].outcome # "ok") =>
         /\ Len(issued') = 1
         /\ call'.result = Thrown(issued'[1].outcome)
         /\ Len(call'.result) = 2
         /\ todosTable' = todosTable]_vars

\* an updateTodo on an existing row ended by throwing the store's error, and
\* the row is as createTodo left it
C16_Witness ==
  /\ call.op = "updateTodo"
  /\ call.input.completed = Some(TRUE)
  /\ issued = <<Statement("update", "57014")>>
  /\ call.result = Thrown("57014")
  /\ \E r \in todosTable : r.id = call.input.id /\ r.completed = FALSE

(* ---------------- C17 ---------------- *)

\* the fields an updateTodo input supplies
SuppliedFields(input) ==
  {f \in {"title", "description", "completed"} : Supplied(input[f])}

\* C17: each handler call performs exactly one atomic store statement, so for
\* two concurrent updateTodo calls on the same existing id that supply disjoint
\* fields, in every interleaving both written values are present in the final
\* row.
C17_DisjointConcurrentUpdatesBothLand ==
  /\ Len(issued) = 1
  /\ \A c \in Callers :
       updates[c].statements = IF updates[c].pc = "returned" THEN 1 ELSE 0
  /\ \A c, d \in Callers :
       (/\ c # d
        /\ updates[c].pc = "returned"
        /\ updates[d].pc = "returned"
        /\ updates[c].input.id = updates[d].input.id
        /\ SuppliedFields(updates[c].input) \cap SuppliedFields(updates[d].input) = {})
       => \A r \in todosTable : r.id = updates[c].input.id =>
            \A f \in SuppliedFields(updates[c].input) : r[f] = updates[c].input[f][1]

\* both calls have returned, A's statement ran while B was already awaiting its
\* own, A set completed and B set title, and the row holds both
C17_Witness ==
  /\ updates["A"].pc = "returned"
  /\ updates["B"].pc = "returned"
  /\ updates["A"].overlapped
  /\ updates["A"].input.id = updates["B"].input.id
  /\ SuppliedFields(updates["A"].input) = {"completed"}
  /\ SuppliedFields(updates["B"].input) = {"title"}
  /\ updates["A"].input.completed = Some(TRUE)
  /\ \E r \in todosTable :
       /\ r.id = updates["A"].input.id
       /\ r.completed = TRUE
       /\ r.title = updates["B"].input.title[1]
       /\ call.op = "updateTodo"
       /\ call.result = Some(r)

(* ---------------- C20 ---------------- *)

\* C20: for a row, updated_at never decreases: in every interleaving of
\* concurrent updateTodo calls on the same id (each takes its timestamp before
\* its store statement is issued), the row's updated_at after each statement is
\* >= its value before that statement.
C20_UpdatedAtNeverDecreases ==
  [][\A r \in todosTable : \A q \in todosTable' :
       q.id = r.id => q.updated_at >= r.updated_at]_vars

(* ---------------- C19 ---------------- *)

\* the step ran the named event handler of the client
Handled(handler) == steps' = steps + 1 /\ event'.handler = handler

\* the step reached no backend: no call went out, and no handler ran
NoBackendCall ==
  /\ rpcCalls' = rpcCalls
  /\ pending' = pending
  /\ UNCHANGED serverVars

\* C19: while the client is in stub mode (isUsingStubData is true), creating,
\* toggling and deleting a todo issue no backend call and change only the
\* local list: create prepends a new incomplete todo, toggle flips completed of
\* the todo with that id only, delete removes the todo with that id only.
C19_StubModeIsLocal ==
  [][isUsingStubData =>
       /\ Handled("handleCreateTodo") =>
            /\ NoBackendCall
            /\ UNCHANGED <<isLoading, isCreating, backendError, isUsingStubData>>
            /\ Len(todos') = Len(todos) + 1
            /\ Tail(todos') = todos
            /\ Head(todos').completed = FALSE
            /\ Head(todos').title = event'.arg[1].title
       /\ Handled("handleToggleComplete") =>
            /\ NoBackendCall
            /\ UNCHANGED <<isLoading, isCreating, backendError, isUsingStubData>>
            /\ Len(todos') = Len(todos)
            /\ \A n \in 1 .. Len(todos) :
                 IF todos[n].id = event'.arg[1].id
                 THEN /\ todos'[n].completed = ~todos[n].completed
                      /\ todos'[n].id = todos[n].id
                      /\ todos'[n].title = todos[n].title
                      /\ todos'[n].description = todos[n].description
                      /\ todos'[n].created_at = todos[n].created_at
                 ELSE todos'[n] = todos[n]
       /\ Handled("handleDeleteTodo") =>
            /\ NoBackendCall
            /\ UNCHANGED <<isLoading, isCreating, backendError, isUsingStubData>>
            /\ todos' = SelectSeq(todos, LAMBDA t : t.id # event'.arg[1])
  ]_vars

\* in demo mode, after the load was the only backend call, the first demo todo
\* was toggled: it is now completed and the second demo todo is as it was
C19_Witness ==
  /\ isUsingStubData
  /\ event.handler = "handleToggleComplete"
  /\ event.arg[1].id = 1
  /\ rpcCalls = 1
  /\ pending = <<>>
  /\ Len(todos) >= 2
  /\ \E n \in 1 .. Len(todos) : todos[n].id = 1 /\ todos[n].completed
  /\ \E n \in 1 .. Len(todos) : todos[n] = DemoTodos(ClientEpoch)[2]

(* ---------------- C21 ---------------- *)

\* the ids of the todos the client lists
ListedIds == {todos[n].id : n \in 1 .. Len(todos)}

\* C21: with a reachable backend and a single client, whenever no client
\* request is in flight the client's todo list holds exactly the store's rows:
\* the same set of ids, and for each id the same title, description and
\* completed as the stored row, after any sequence of UI create, toggle and
\* delete actions.
C21_ListMatchesStore ==
  pending = <<>> =>
    /\ ListedIds = {r.id : r \in todosTable}
    /\ \A n \in 1 .. Len(todos) : \E r \in todosTable :
         /\ r.id = todos[n].id
         /\ r.title = todos[n].title
         /\ r.description = todos[n].description
         /\ r.completed = todos[n].completed

(* ---------------- C22 ---------------- *)

\* C22: in every reachable client state, isUsingStubData is true exactly when
\* backendError is non-null, in every interleaving of the initial loadTodos
\* call with create, toggle and delete handlers whose backend calls may
\* succeed or fail.
C22_StubModeIffBackendError ==
  isUsingStubData <=> backendError # Null

(* ---------------- C23 ---------------- *)

\* C23: in every reachable client state, no two todos in the client's list
\* share an id, including todos created locally in stub mode (whose id is the
\* current clock value) next to the demo todos with ids 1 and 2 and next to
\* each other.
C23_ListedIdsDistinct ==
  \A m, n \in 1 .. Len(todos) : todos[m].id = todos[n].id => m = n

====
